---- MODULE Spec2Model ----
(***************************************************************************)
(* Homa Lite pallet (modules/homa-lite/src/lib.rs): users lock Staking     *)
(* currency into the current batch (request_mint), the issuer processes    *)
(* the batch by recording the total issuances (issue), and anybody can     *)
(* then claim the Liquid currency of a user of a processed batch (claim).  *)
(* Every dispatchable is #[transactional]: a call that returns an error    *)
(* leaves the storage as it was.                                           *)
(***************************************************************************)
EXTENDS Integers, Sequences, FiniteSets, TLC

(* ---------------------------- bounds ----------------------------------- *)
\* a successful issue is followed while CurrentBatch is below MaxBatch, and
\* below MaxBatchLong in the runs that process several batches (EraIndex is
\* a u32 in the code)
MaxBatch == 1
MaxBatchLong == 2
\* amounts a user passes to request_mint: 0..MaxAmount
MaxAmount == 3
\* staking_total values the issuer passes to issue: 0..MaxStakingTotal
MaxStakingTotal == 3
\* Staking currency of the one user of a single-user genesis
InitStaking == 3
\* Liquid currency in circulation at a genesis that has some
InitLiquid == 1
\* a request_mint that would leave more than MaxPending pending, and less
\* than 10^8, is not followed
MaxPending == 4

(* ------------------------- natural numbers ----------------------------- *)
\* A natural number of any size is a sequence of limbs in base 10^4, the
\* least significant first; limbs beyond the length are zero.
Base == 10000

\* F at the value of x, and at the values of x and y: an argument is
\* evaluated once, however often F uses it
With(x, F(_)) == CHOOSE r \in {F(v) : v \in {x}} : TRUE
With2(x, y, F(_, _)) == CHOOSE r \in {F(v, w) : v \in {x}, w \in {y}} : TRUE

NatLimb(a, i) == IF i <= Len(a) THEN a[i] ELSE 0

\* the limbs 1..n of a without the leading zero limbs
RECURSIVE NatTrimFrom(_, _)
NatTrimFrom(a, n) ==
    IF n = 0 THEN <<>>
    ELSE IF a[n] = 0 THEN NatTrimFrom(a, n - 1)
    ELSE IF n = Len(a) THEN a
    ELSE SubSeq(a, 1, n)

NatTrim(a) == With(a, LAMBDA x : NatTrimFrom(x, Len(x)))

\* -1, 0 or 1 as a <, =, > b on the limbs i, i - 1, .., 1
RECURSIVE NatCmpFrom(_, _, _)
NatCmpFrom(a, b, i) ==
    IF i = 0 THEN 0
    ELSE IF NatLimb(a, i) < NatLimb(b, i) THEN -1
    ELSE IF NatLimb(a, i) > NatLimb(b, i) THEN 1
    ELSE NatCmpFrom(a, b, i - 1)

NatCmp(a, b) ==
    With2(a, b, LAMBDA x, y :
        NatCmpFrom(x, y, IF Len(x) > Len(y) THEN Len(x) ELSE Len(y)))

NatLess(a, b) == NatCmp(a, b) < 0
NatLeq(a, b) == NatCmp(a, b) <= 0
NatEq(a, b) == NatCmp(a, b) = 0

RECURSIVE NatAddFrom(_, _, _, _, _)
NatAddFrom(a, b, i, n, carry) ==
    IF i > n THEN IF carry = 0 THEN <<>> ELSE <<carry>>
    ELSE With2(NatLimb(a, i) + NatLimb(b, i) + carry, i + 1, LAMBDA s, j :
             <<s % Base>> \o NatAddFrom(a, b, j, n, s \div Base))

NatAdd(a, b) ==
    With2(a, b, LAMBDA x, y :
        NatAddFrom(x, y, 1, IF Len(x) > Len(y) THEN Len(x) ELSE Len(y), 0))

\* a - b for b <= a
RECURSIVE NatSubFrom(_, _, _, _)
NatSubFrom(a, b, i, borrow) ==
    IF i > Len(a) THEN <<>>
    ELSE With2(a[i] - NatLimb(b, i) - borrow, i + 1, LAMBDA s, j :
             IF s < 0 THEN <<s + Base>> \o NatSubFrom(a, b, j, 1)
             ELSE <<s>> \o NatSubFrom(a, b, j, 0))

NatSub(a, b) == With2(a, b, LAMBDA x, y : NatSubFrom(x, y, 1, 0))

\* a * k for a limb k
RECURSIVE NatMulLimbFrom(_, _, _, _)
NatMulLimbFrom(a, k, i, carry) ==
    IF i > Len(a) THEN IF carry = 0 THEN <<>> ELSE <<carry>>
    ELSE With2(a[i] * k + carry, i + 1, LAMBDA p, j :
             <<p % Base>> \o NatMulLimbFrom(a, k, j, p \div Base))

NatMulLimb(a, k) ==
    With2(a, k, LAMBDA x, y :
        IF y = 0 THEN <<>> ELSE NatMulLimbFrom(x, y, 1, 0))

\* a * Base^k
NatShift(a, k) ==
    With(a, LAMBDA x : IF x = <<>> THEN x ELSE [i \in 1..k |-> 0] \o x)

\* the limbs from j up of a * k + rest * Base, for a limb k
RECURSIVE NatMulAddFrom(_, _, _, _, _)
NatMulAddFrom(a, k, rest, j, carry) ==
    IF j > Len(a) /\ j > Len(rest) + 1
    THEN IF carry = 0 THEN <<>> ELSE <<carry>>
    ELSE With2(NatLimb(a, j) * k + (IF j = 1 THEN 0 ELSE NatLimb(rest, j - 1))
                  + carry,
               j + 1, LAMBDA s, n :
             <<s % Base>> \o NatMulAddFrom(a, k, rest, n, s \div Base))

\* a times the limbs of b from i up
RECURSIVE NatMulFrom(_, _, _)
NatMulFrom(a, b, i) ==
    IF i > Len(b) THEN <<>>
    ELSE With(NatMulFrom(a, b, i + 1), LAMBDA rest :
             NatMulAddFrom(a, b[i], rest, 1, 0))

\* the number n < Base^2 in limbs
NatOf(n) ==
    IF n = 0 THEN <<>>
    ELSE IF n < Base THEN <<n>>
    ELSE <<n % Base, n \div Base>>

\* the number of zero limbs of d below its lowest limb that is not zero
RECURSIVE NatLowZeros(_, _)
NatLowZeros(d, i) == IF d[i] # 0 THEN i - 1 ELSE NatLowZeros(d, i + 1)

\* d is k * Base^m for one limb k
NatOneLimb(d) == NatLowZeros(d, 1) = Len(d) - 1

\* a * b; a factor k * Base^m of one limb k multiplies by the limb and
\* shifts
NatMul(a, b) ==
    With2(NatTrim(a), NatTrim(b), LAMBDA x, y :
        IF x = <<>> \/ y = <<>> THEN <<>>
        ELSE IF Len(x) = 1 /\ Len(y) = 1 THEN NatOf(x[1] * y[1])
        ELSE IF NatOneLimb(y)
        THEN NatShift(NatMulLimb(x, y[Len(y)]), Len(y) - 1)
        ELSE IF NatOneLimb(x)
        THEN NatShift(NatMulLimb(y, x[Len(x)]), Len(x) - 1)
        ELSE NatTrim(NatMulFrom(x, y, 1)))

\* a divided by a limb k > 0, from limb i down with the remainder r and
\* the limbs q of the quotient so far
RECURSIVE NatDivLimbFrom(_, _, _, _, _)
NatDivLimbFrom(a, k, i, r, q) ==
    IF i = 0 THEN [q |-> q, r |-> IF r = 0 THEN <<>> ELSE <<r>>]
    ELSE With(r * Base + a[i], LAMBDA cur :
             NatDivLimbFrom(a, k, i - 1, cur % k, <<cur \div k>> \o q))

\* the largest q in lo..hi with d * q <= cur, given d * lo <= cur
RECURSIVE NatQuotSearch(_, _, _, _)
NatQuotSearch(cur, d, lo, hi) ==
    IF lo >= hi THEN lo
    ELSE With((lo + hi + 1) \div 2, LAMBDA mid :
             IF NatLeq(NatMulLimb(d, mid), cur)
             THEN NatQuotSearch(cur, d, mid, hi)
             ELSE NatQuotSearch(cur, d, lo, mid - 1))

\* the limb cur \div d, for cur < d * Base and d of n >= 2 limbs; the two
\* leading limbs of cur and the leading limb of d bound it from both sides
NatQuotLimb(cur, d) ==
    LET n == Len(d)
        top == NatLimb(cur, n + 1) * Base + NatLimb(cur, n)
        lo == top \div (d[n] + 1)
        hi == top \div d[n]
    IN  With2(lo, IF hi < Base THEN hi ELSE Base - 1, LAMBDA l, h :
            NatQuotSearch(cur, d, l, h))

\* one step of the long division: the limb cur \div d and the remainder,
\* in as many limbs as d has
NatDivStep(cur, d) ==
    With(NatQuotLimb(cur, d), LAMBDA q :
        [q |-> q, r |-> SubSeq(NatSub(cur, NatMulLimb(d, q)), 1, Len(d))])

\* long division of a by d of n >= 2 limbs, from limb i down with the
\* remainder r < d and the limbs q of the quotient so far (the remainder of
\* each step is below d again)
RECURSIVE NatDivFrom(_, _, _, _, _)
NatDivFrom(a, d, i, r, q) ==
    IF i = 0 THEN [q |-> q, r |-> NatTrim(r)]
    ELSE With(NatDivStep(<<a[i]>> \o r, d), LAMBDA s :
             NatDivFrom(a, d, i - 1, s.r, <<s.q>> \o q))

\* long division of a by d of n >= 2 limbs with a leading limb of at least
\* Base \div 2, which keeps the bounds of NatQuotLimb within two of each
\* other; the leading limbs of a, one fewer than d has, are the remainder
\* the long division starts from
NatDivLong(a, d) ==
    IF Len(a) < Len(d) THEN [q |-> <<>>, r |-> a]
    ELSE NatDivFrom(a, d, Len(a) - Len(d) + 1,
                    SubSeq(a, Len(a) - Len(d) + 2, Len(a)) \o <<0>>, <<>>)

\* quotient and remainder of a divided by d > 0. A divisor k * Base^m of
\* one limb k that is not zero divides the limbs of a above the lowest m by
\* k, and the lowest m limbs go to the remainder. Any other divisor is
\* scaled, with a, by the limb f that brings its leading limb to Base \div 2
\* or above: the quotient is that of a * f by d * f and the remainder is
\* theirs divided by f
NatDivMod(a, d) ==
    With2(NatTrim(a), NatTrim(d), LAMBDA x, y :
        IF Len(x) < Len(y) \/ NatCmpFrom(x, y, Len(x)) < 0
        THEN [q |-> <<>>, r |-> x]
        ELSE IF Len(x) <= 2 /\ Len(y) = 1
        THEN [q |-> NatOf((x[1] + Base * NatLimb(x, 2)) \div y[1]),
              r |-> NatOf((x[1] + Base * NatLimb(x, 2)) % y[1])]
        ELSE IF NatOneLimb(y)
        THEN With(NatDivLimbFrom(SubSeq(x, Len(y), Len(x)), y[Len(y)],
                                 Len(x) - Len(y) + 1, 0, <<>>),
                  LAMBDA res :
                      [q |-> NatTrim(res.q),
                       r |-> NatTrim(SubSeq(x, 1, Len(y) - 1) \o res.r)])
        ELSE With(Base \div (y[Len(y)] + 1), LAMBDA f :
                 IF f = 1
                 THEN With(NatDivLong(x, y), LAMBDA res :
                          [q |-> NatTrim(res.q), r |-> res.r])
                 ELSE With(NatDivLong(NatMulLimb(x, f), NatMulLimb(y, f)),
                           LAMBDA res :
                          [q |-> NatTrim(res.q),
                           r |-> NatTrim(NatDivLimbFrom(res.r, f, Len(res.r),
                                                        0, <<>>).q)])))

\* 10^18 and 2^128
Pow18 == <<0, 0, 0, 0, 100>>
Pow128 == <<1456, 6821, 4317, 4607, 6337, 4634, 938, 6692, 2823, 340>>

(* ---------------------------- Balance ---------------------------------- *)
\* A Balance is a u128, kept as its five limbs in base 10^8, the least
\* significant first: 3 is <<3, 0, 0, 0, 0>>.
Coarse == Base * Base

\* the Balance of an integer n of the model, 0 <= n < 2^31
B(n) == <<n % Coarse, n \div Coarse, 0, 0, 0>>

Zero == <<0, 0, 0, 0, 0>>
\* Balance::max_value() = 2^128 - 1
U128Max == <<68211455, 46074317, 46346337, 66920938, 3402823>>

\* the natural number of a Balance and the Balance of a number below 2^128
ToNat(balance) ==
    With(balance, LAMBDA b :
        IF b[2] = 0 /\ b[3] = 0 /\ b[4] = 0 /\ b[5] = 0 THEN NatOf(b[1])
        ELSE <<b[1] % Base, b[1] \div Base, b[2] % Base, b[2] \div Base,
               b[3] % Base, b[3] \div Base, b[4] % Base, b[4] \div Base,
               b[5] % Base, b[5] \div Base>>)

FromNat(number) ==
    With(number, LAMBDA a :
        <<NatLimb(a, 1) + Base * NatLimb(a, 2),
          NatLimb(a, 3) + Base * NatLimb(a, 4),
          NatLimb(a, 5) + Base * NatLimb(a, 6),
          NatLimb(a, 7) + Base * NatLimb(a, 8),
          NatLimb(a, 9) + Base * NatLimb(a, 10)>>)

\* b < 10^8: b is its first limb
Small(b) == b[2] = 0 /\ b[3] = 0 /\ b[4] = 0 /\ b[5] = 0

(* ---------------------------- EraIndex --------------------------------- *)
\* An EraIndex is a u32, kept as its two limbs in base 10^8, the least
\* significant first: 3 is <<3, 0>>.
EraIndex(n) == <<n % Coarse, n \div Coarse>>

\* EraIndex::max_value() = 2^32 - 1
U32Max == <<94967295, 42>>

\* a < b
EraLess(a, b) == a[2] < b[2] \/ (a[2] = b[2] /\ a[1] < b[1])

\* e + 1 for e below EraIndex::max_value()
EraNext(e) ==
    IF e[1] = Coarse - 1 THEN <<0, e[2] + 1>> ELSE <<e[1] + 1, e[2]>>

\* the natural number of an EraIndex
EraNat(e) == ToNat(<<e[1], e[2], 0, 0, 0>>)

(* ---------------------------- inputs ----------------------------------- *)
NoAccount == "none"
Users == {"alice", "bob"}
StashAccounts == {"vault"}
\* the accounts governance can choose from when it may move the stash
AllStashAccounts == {"vault", "reserve"}
Accounts == Users \cup AllStashAccounts
\* the account that holds the Liquid currency issued at genesis
Treasury == "vault"

Root == [kind |-> "Root", who |-> NoAccount]
Signed(a) == [kind |-> "Signed", who |-> a]
Origins == {Root} \cup {Signed(a) : a \in Users}

\* the batch indices of the storage maps, and those passed to claim in the
\* runs that process MaxBatch batches
Batches == {EraIndex(n) : n \in 0..MaxBatchLong}
ClaimBatches == {EraIndex(n) : n \in 0..MaxBatch}

\* the amounts passed to request_mint and the totals passed to issue
Amounts == {B(n) : n \in 0..MaxAmount}
StakingTotals == {B(n) : n \in 0..MaxStakingTotal}

\* Balance::max_value() - 1 and Balance::max_value() - 3
U128MaxLess1 == <<68211454, 46074317, 46346337, 66920938, 3402823>>
U128MaxLess3 == <<68211452, 46074317, 46346337, 66920938, 3402823>>

\* genesis configurations: the Staking currency of the users and the Liquid
\* currency in circulation
Genesis ==
    { [alice |-> B(InitStaking), bob |-> Zero, liquid |-> B(InitLiquid)],
      [alice |-> B(1), bob |-> B(1), liquid |-> B(InitLiquid)],
      [alice |-> B(1), bob |-> B(1), liquid |-> Zero] }
\* the genesis configurations of the runs that reach the checked arithmetic
GenesisNarrow ==
    { [alice |-> U128MaxLess1, bob |-> Zero, liquid |-> B(2)],
      [alice |-> U128MaxLess1, bob |-> Zero, liquid |-> B(1)],
      [alice |-> B(3), bob |-> Zero, liquid |-> U128Max],
      [alice |-> B(3), bob |-> Zero, liquid |-> U128MaxLess3] }
\* the amounts and totals passed in those runs
AmountsNarrow == {Zero, B(3), U128MaxLess1, U128Max}
StakingTotalsNarrow == {Zero, B(1), B(2), B(5), U128Max}
\* the genesis configuration, the amounts and the totals of the runs that
\* process several batches
GenesisLong == {[alice |-> B(1), bob |-> B(1), liquid |-> B(1)]}
AmountsLong == {Zero, B(1)}
StakingTotalsLong == {Zero, B(1), B(2)}
\* the genesis configurations of the runs in which the stash account moves
GenesisStash == {g \in Genesis : g.alice = B(1) /\ g.liquid = B(InitLiquid)}
Endowment(g, a) == IF a \in Users THEN g[a] ELSE Zero

VARIABLES
    PendingAmount,           \* double map (batch, user) -> amount, ValueQuery
    BatchTotalIssuanceInfo,  \* map batch -> TotalIssuanceInfo, OptionQuery
    CurrentBatch,            \* value, ValueQuery (0 when never written)
    RelayChainStashAccount,  \* value, OptionQuery (NoAccount = None)
    staking,                 \* T::Currency free balances of StakingCurrencyId
    liquid,                  \* T::Currency free balances of LiquidCurrencyId
    liquid_issuance,         \* T::Currency::total_issuance(LiquidCurrencyId)
    last,                    \* the call dispatched last and its result
    event,                   \* the events that call deposited
    total_requested,         \* history: per batch, the sum of the amounts
                             \* of the successful request_mint calls
    total_claimed            \* history: per batch, the sum of the amounts
                             \* the successful claim calls deposited

vars == <<PendingAmount, BatchTotalIssuanceInfo, CurrentBatch,
          RelayChainStashAccount, staking, liquid, liquid_issuance,
          last, event, total_requested, total_claimed>>

storage == <<PendingAmount, BatchTotalIssuanceInfo, CurrentBatch,
             RelayChainStashAccount, staking, liquid, liquid_issuance>>

(* ------------------------- storage getters ----------------------------- *)
\* Option<T> is the empty set (None) or a singleton (Some)
None == {}
Some(x) == {x}
Unwrap(o) == CHOOSE x \in o : TRUE

(* ------------------------- Balance arithmetic -------------------------- *)
\* a < b
Less(a, b) ==
    With2(a, b, LAMBDA x, y :
        IF Small(x) /\ Small(y) THEN x[1] < y[1]
        ELSE NatCmpFrom(x, y, 5) < 0)

\* a + b as a natural number
Sum(a, b) == With2(a, b, LAMBDA x, y : NatAdd(ToNat(x), ToNat(y)))

\* a.checked_add(b): None when a + b > Balance::max_value()
checked_add(a, b) ==
    With2(a, b, LAMBDA x, y :
        IF Small(x) /\ Small(y) THEN Some(B(x[1] + y[1]))
        ELSE With(Sum(x, y), LAMBDA s :
                 IF NatLess(s, Pow128) THEN Some(FromNat(s)) ELSE None))

\* a + b and a - b modulo 2^128
Add(a, b) ==
    With2(a, b, LAMBDA x, y :
        IF Small(x) /\ Small(y) THEN B(x[1] + y[1])
        ELSE With(Sum(x, y), LAMBDA s :
                 IF NatLess(s, Pow128) THEN FromNat(s)
                 ELSE FromNat(NatSub(s, Pow128))))

Sub(a, b) ==
    With2(a, b, LAMBDA x, y :
        IF Small(x) /\ Small(y) /\ x[1] >= y[1] THEN B(x[1] - y[1])
        ELSE IF Less(x, y)
        THEN FromNat(NatSub(NatAdd(ToNat(x), Pow128), ToNat(y)))
        ELSE FromNat(NatSub(ToNat(x), ToNat(y))))

\* PendingAmount getter: ValueQuery, an absent key reads as zero, so the
\* double map is kept as the total function its getter computes
pending_amount_default_one(batch, who) ==
    IF PendingAmount[batch][who] = Zero
    THEN B(1) ELSE PendingAmount[batch][who]

pending_amount(batch, who) == PendingAmount[batch][who]

\* BatchTotalIssuanceInfo getter: OptionQuery
batch_total_issuance_info_any(batch) ==
    IF batch \in DOMAIN BatchTotalIssuanceInfo
    THEN Some(BatchTotalIssuanceInfo[batch])
    ELSE Some([staking_total |-> B(1), liquid_total |-> liquid_issuance])

batch_total_issuance_info(batch) ==
    IF batch \in DOMAIN BatchTotalIssuanceInfo
    THEN Some(BatchTotalIssuanceInfo[batch]) ELSE None

current_batch == CurrentBatch

\* RelayChainStashAccount getter: OptionQuery
relay_chain_stash_account_default ==
    IF RelayChainStashAccount = NoAccount
    THEN Some(Treasury) ELSE Some(RelayChainStashAccount)

relay_chain_stash_account ==
    IF RelayChainStashAccount = NoAccount
    THEN None ELSE Some(RelayChainStashAccount)

(* ----------------------------- origins --------------------------------- *)
\* frame_system::ensure_signed
ensure_signed(origin) ==
    IF origin.kind = "Signed" THEN Some(origin.who) ELSE None

\* T::IssuerOrigin / T::GovernanceOrigin: EnsureRoot
ensure_root(origin) == origin.kind = "Root"

(* ------------------- Ratio = FixedU128, DIV = 10^18 -------------------- *)
\* A FixedU128 is kept as its inner value, a u128 in the five limbs of a
\* Balance: the Ratio 1 is the inner value 10^18, <<0, 0, 100, 0, 0>>.
\* FixedU128 is the type of the sp-arithmetic crate the pallet imports
\* (lib.rs:42-45). Both calls of claim go through its
\* helpers_128bit::multiply_by_rational(a, b, c), which computes a * b / c:
\* truncated when a * b fits a u128, and otherwise, by its arbitrary
\* precision division, truncated for a divisor of one 32-bit limb and
\* rounded to the nearest for a longer one.

\* 2^32
Pow32 == <<7296, 9496, 42>>

\* the Balance of a natural number below 2^128, None for any other
CheckedFromNat(number) ==
    With(number, LAMBDA a :
        IF Len(a) < 10 \/ NatLess(a, Pow128) THEN Some(FromNat(a))
        ELSE None)

\* multiply_by_rational(a, b, c) for natural numbers a, b, c < 2^128:
\*   if a or b is zero: Ok(0); c = c.max(1); a is the larger of a and b;
\*   if a % c == 0 { a /= c; c = 1 } else if b % c == 0 { b /= c; c = 1 }
\*   if a.checked_mul(b) is Some(x): Ok(x / c)
\*   else q = a * b / c in BigUint: div_unit when c has one limb, else
\*        (q, r) = div and q + 1 when r > c / 2; Err when q > u128::MAX
multiply_by_rational(a, b, c) ==
    With2(NatTrim(a), NatTrim(b), LAMBDA x, y :
        IF x = <<>> \/ y = <<>> THEN Some(Zero)
        ELSE With2(IF NatLess(x, y) THEN <<y, x>> ELSE <<x, y>>,
                   IF NatTrim(c) = <<>> THEN <<1>> ELSE NatTrim(c),
                   LAMBDA ab, z :
             With(NatDivMod(ab[1], z), LAMBDA da :
               IF da.r = <<>> THEN CheckedFromNat(NatMul(da.q, ab[2]))
               ELSE With(NatDivMod(ab[2], z), LAMBDA db :
                 IF db.r = <<>> THEN CheckedFromNat(NatMul(ab[1], db.q))
                 ELSE With(NatMul(ab[1], ab[2]), LAMBDA product :
                   With(NatDivMod(product, z), LAMBDA d :
                     IF NatLess(product, Pow128) THEN Some(FromNat(d.q))
                     ELSE IF NatLess(z, Pow32) THEN CheckedFromNat(d.q)
                     ELSE IF NatLess(NatDivMod(z, <<2>>).q, d.r)
                     THEN CheckedFromNat(NatAdd(d.q, <<1>>))
                     ELSE CheckedFromNat(d.q)))))))

\* the operands of the short forms: a numerator below ShortNumerator, a
\* divisor or factor of at most ShortMax and a Ratio whose top limb is below
\* ShortRatioTop keep every product below 2^128, where
\* multiply_by_rational truncates, and every intermediate value of the limb
\* arithmetic below 2^31
ShortMax == 21
ShortNumerator == 1000000
ShortRatioTop == 162037

\* floor(n * 10^18 / d) for integers n < ShortNumerator and 0 < d <=
\* ShortMax, by short division in the limbs of a Balance
RationalShort(n, d) ==
    LET q3 == (n * 100) \div d
        r3 == (n * 100) % d
        q2 == (r3 * Coarse) \div d
        r2 == (r3 * Coarse) % d
        q1 == (r2 * Coarse) \div d
    IN  <<q1, q2, q3, 0, 0>>

\* floor(inner * n / 10^18) for an integer n <= ShortMax: the limbs of
\* inner * n with their carries, without the lowest 18 decimal digits
MulShort(ratio, n) ==
    LET p1 == ratio[1] * n
        p2 == ratio[2] * n + p1 \div Coarse
        p3 == ratio[3] * n + p2 \div Coarse
        p4 == ratio[4] * n + p3 \div Coarse
        p5 == ratio[5] * n + p4 \div Coarse
    IN  With2(p4 % Coarse, p5, LAMBDA x4, p :
            <<(p3 % Coarse) \div 100 + (x4 % 100) * 1000000,
              x4 \div 100 + (p % 100) * 1000000,
              (p % Coarse) \div 100 + ((p \div Coarse) % 100) * 1000000,
              0, 0>>)

\* Ratio::checked_from_rational(n, d): None when d is zero, else
\* multiply_by_rational(n, DIV, d) as the inner value, None when it is Err
checked_from_rational_zero_fails(n, d) ==
    With2(n, d, LAMBDA x, y :
        IF y = Zero \/ x = Zero THEN None
        ELSE multiply_by_rational(ToNat(x), Pow18, ToNat(y)))

checked_from_rational(n, d) ==
    With2(n, d, LAMBDA x, y :
        IF y = Zero THEN None
        ELSE IF Small(x) /\ x[1] < ShortNumerator
                /\ Small(y) /\ y[1] <= ShortMax
        THEN Some(RationalShort(x[1], y[1]))
        ELSE multiply_by_rational(ToNat(x), Pow18, ToNat(y)))

\* ratio.checked_mul_int(n): multiply_by_rational(inner, n, DIV), None when
\* it is Err
checked_mul_int_round_up(ratio, n) ==
    CheckedFromNat(NatDivMod(NatAdd(NatMul(ToNat(ratio), ToNat(n)),
                                    NatSub(Pow18, <<1>>)),
                             Pow18).q)

checked_mul_int_wrapping(ratio, n) ==
    With(multiply_by_rational(ToNat(ratio), ToNat(n), Pow18), LAMBDA m :
        IF m # None THEN m
        ELSE Some(FromNat(NatDivMod(NatDivMod(NatMul(ToNat(ratio), ToNat(n)),
                                              Pow18).q,
                                    Pow128).r)))

checked_mul_int(ratio, n) ==
    With2(ratio, n, LAMBDA x, y :
        IF Small(y) /\ y[1] <= ShortMax /\ x[5] < ShortRatioTop
        THEN Some(MulShort(x, y[1]))
        ELSE multiply_by_rational(ToNat(x), ToNat(y), Pow18))

(* --------------------------- T::Currency ------------------------------- *)
\* MultiCurrency::transfer of the Staking currency: nothing to do for a
\* zero amount or a transfer to oneself; otherwise the sender must hold the
\* amount and the balance of the receiver must not overflow
Transfer_no_debit(bal, from, to, amount) ==
    IF amount = Zero \/ from = to
    THEN [ok |-> TRUE, err |-> "Ok", bal |-> bal]
    ELSE IF Less(bal[from], amount)
         THEN [ok |-> FALSE, err |-> "BalanceTooLow", bal |-> bal]
    ELSE IF checked_add(bal[to], amount) = None
         THEN [ok |-> FALSE, err |-> "BalanceOverflow", bal |-> bal]
         ELSE [ok |-> TRUE, err |-> "Ok",
               bal |-> [bal EXCEPT ![to] = Add(@, amount)]]

Transfer(bal, from, to, amount) ==
    IF amount = Zero \/ from = to
    THEN [ok |-> TRUE, err |-> "Ok", bal |-> bal]
    ELSE IF Less(bal[from], amount)
         THEN [ok |-> FALSE, err |-> "BalanceTooLow", bal |-> bal]
    ELSE IF checked_add(bal[to], amount) = None
         THEN [ok |-> FALSE, err |-> "BalanceOverflow", bal |-> bal]
         ELSE [ok |-> TRUE, err |-> "Ok",
               bal |-> [bal EXCEPT ![from] = Sub(@, amount),
                                   ![to] = Add(@, amount)]]

\* MultiCurrency::deposit of the Liquid currency: the total issuance is
\* raised with a checked addition, then the balance is credited
DepositIssuance(issuance, amount) == checked_add(issuance, amount)

Deposit(bal, who, amount) == [bal EXCEPT ![who] = Add(@, amount)]

(* ------------------------ storage mutations ---------------------------- *)
EmptyMap == [x \in {} |-> 0]
\* StorageMap::insert
MapInsert(m, k, v) == [x \in DOMAIN m \cup {k} |-> IF x = k THEN v ELSE m[x]]
\* PendingAmount::mutate(batch, who, |current| *current = v)
PendingMutate_all(m, batch, who, v) ==
    [m EXCEPT ![batch] = [u \in Users |-> v]]

PendingMutate(m, batch, who, v) == [m EXCEPT ![batch][who] = v]

NoEvent == <<>>
\* the dispatchable called last and the DispatchResult it returned
Call(op, result) == [op |-> op, result |-> result]

\* the storage after genesis, for the genesis configurations G
Genesis_build(G) ==
    /\ PendingAmount = [b \in Batches |-> [u \in Users |-> Zero]]
    /\ BatchTotalIssuanceInfo = EmptyMap
    /\ CurrentBatch = EraIndex(0)
    /\ RelayChainStashAccount = NoAccount
    /\ \E g \in G :
         /\ staking = [a \in Accounts |-> Endowment(g, a)]
         /\ liquid = [a \in Accounts |->
                         IF a = Treasury THEN g.liquid ELSE Zero]
         /\ liquid_issuance = g.liquid
    /\ last = Call("genesis", "Ok")
    /\ event = NoEvent
    /\ total_requested = [b \in Batches |-> Zero]
    /\ total_claimed = [b \in Batches |-> Zero]

Init == Genesis_build(Genesis)

(* --------------------------- dispatchables ----------------------------- *)
\* an event of the pallet; a and b are its Balances, Zero where it has none
Event(name, batch, who, a, b) ==
    <<[name |-> name, batch |-> batch, who |-> who, a |-> a, b |-> b]>>

\* a call that returns Err: #[transactional] rolls the storage back
Fail_no_rollback(call) ==
    /\ last' = call
    /\ event' = NoEvent
    /\ PendingAmount' = [b \in Batches |-> [u \in Users |-> Zero]]
    /\ UNCHANGED <<BatchTotalIssuanceInfo, CurrentBatch,
                   RelayChainStashAccount, staking, liquid, liquid_issuance>>
    /\ UNCHANGED <<total_requested, total_claimed>>

Fail(call) ==
    /\ last' = call
    /\ event' = NoEvent
    /\ UNCHANGED storage
    /\ UNCHANGED <<total_requested, total_claimed>>

\* a call that panics returns no DispatchResult and commits nothing
Panic(call) ==
    /\ last' = call
    /\ event' = NoEvent
    /\ UNCHANGED storage
    /\ UNCHANGED <<total_requested, total_claimed>>

\* the pending amount v is followed
PendingFollowed(v) == ~Small(v) \/ v[1] <= MaxPending

\* the step is followed: a successful issue while CurrentBatch is below cap
IssueFollowed(cap) ==
    (last'.op = "issue" /\ last'.result = "Ok")
       => EraLess(CurrentBatch, EraIndex(cap))

\* the batch a mint request is recorded under
MintBatch_previous(batch) ==
    IF batch[1] > 0 THEN <<batch[1] - 1, batch[2]>>
    ELSE IF batch[2] > 0 THEN <<Coarse - 1, batch[2] - 1>>
    ELSE batch

MintBatch(batch) == batch

\* request_mint(origin, amount)
request_mint(origin, amount) ==
    LET stash_account == relay_chain_stash_account
        signer == ensure_signed(origin)
        batch == MintBatch(current_batch)
    IN
    IF stash_account = None
    THEN Fail(Call("request_mint", "RelayChainStashAccountNotSet"))
    ELSE IF signer = None
    THEN Fail(Call("request_mint", "BadOrigin"))
    ELSE \E who \in signer,
            t \in {Transfer(staking, Unwrap(signer), Unwrap(stash_account),
                            amount)} :
         IF ~t.ok
         THEN Fail(Call("request_mint", t.err))
         ELSE \E sum \in {checked_add(pending_amount(batch, who), amount)} :
              \* current.checked_add(amount).expect(..)
              IF sum = None
              THEN Panic(Call("request_mint", "Panic"))
              ELSE
              /\ PendingFollowed(Unwrap(sum))
              /\ staking' = t.bal
              /\ PendingAmount' =
                    PendingMutate(PendingAmount, batch, who, Unwrap(sum))
              /\ event' = Event("MintRequested", batch, who, amount, Zero)
              /\ last' = Call("request_mint", "Ok")
              /\ total_requested' =
                    [total_requested EXCEPT ![batch] = Add(@, amount)]
              /\ UNCHANGED total_claimed
              /\ UNCHANGED <<BatchTotalIssuanceInfo, CurrentBatch,
                             RelayChainStashAccount, liquid, liquid_issuance>>

\* ensure!(staking_total != 0, ...)
StakingTotalValid_any(staking_total) == TRUE

StakingTotalValid(staking_total) == staking_total # Zero

\* the key the TotalIssuanceInfo of a processed batch is inserted under
IssueBatch_next(batch) == IF batch = U32Max THEN batch ELSE EraNext(batch)

IssueBatch(batch) == batch

\* current_batch.checked_add(1): None when current_batch is
\* EraIndex::max_value()
NextBatch_skip(batch) ==
    IF batch = U32Max \/ EraNext(batch) = U32Max THEN None
    ELSE Some(EraNext(EraNext(batch)))

NextBatch_stay(batch) == Some(batch)

NextBatch(batch) == IF batch = U32Max THEN None ELSE Some(EraNext(batch))

\* issue(origin, staking_total)
issue(origin, staking_total) ==
    LET batch == current_batch IN
    IF ~ensure_root(origin)
    THEN Fail(Call("issue", "BadOrigin"))
    ELSE IF ~StakingTotalValid(staking_total)
    THEN Fail(Call("issue", "InvalidStakedCurrencyTotalIssuance"))
    ELSE LET liquid_total == liquid_issuance
             total_for_batch == [staking_total |-> staking_total,
                                 liquid_total |-> liquid_total]
         IN
         \E next \in {NextBatch(batch)} :
         \* current_batch.checked_add(1).expect(..)
         IF next = None
         THEN Panic(Call("issue", "Panic"))
         ELSE
         /\ BatchTotalIssuanceInfo' =
               MapInsert(BatchTotalIssuanceInfo, IssueBatch(batch),
                         total_for_batch)
         /\ CurrentBatch' = Unwrap(next)
         /\ event' = Event("BatchProcessed", batch, NoAccount,
                           staking_total, liquid_total)
         /\ last' = Call("issue", "Ok")
         /\ UNCHANGED <<total_requested, total_claimed>>
         /\ UNCHANGED <<PendingAmount, RelayChainStashAccount, staking,
                        liquid, liquid_issuance>>

\* the account claim deposits into: the who it is passed
DepositTo_caller(origin, who) == origin.who

DepositTo(origin, who) == who

\* PendingAmount::remove(batch, who)
PendingRemove_keep(m, batch, who) == m

PendingRemove(m, batch, who) == [m EXCEPT ![batch][who] = Zero]

\* claim(origin, who, batch)
claim(origin, who, batch) ==
    LET staked_amount == pending_amount(batch, who)
        total_info == batch_total_issuance_info(batch)
    IN
    IF ensure_signed(origin) = None
    THEN Fail(Call("claim", "BadOrigin"))
    ELSE IF total_info = None
    THEN Fail(Call("claim", "LiquidCurrencyNotIssuedForThisBatch"))
    ELSE \E exchange_ratio \in
               {checked_from_rational(Unwrap(total_info).liquid_total,
                                      Unwrap(total_info).staking_total)} :
         IF exchange_ratio = None
         THEN Fail(Call("claim", "Overflow"))
         ELSE \E liquid_to_mint \in
                    {checked_mul_int(Unwrap(exchange_ratio), staked_amount)} :
              IF liquid_to_mint = None
              THEN Fail(Call("claim", "Overflow"))
              ELSE \E issuance \in
                         {DepositIssuance(liquid_issuance,
                                          Unwrap(liquid_to_mint))} :
                   IF issuance = None
                   THEN Fail(Call("claim", "TotalIssuanceOverflow"))
                   ELSE /\ liquid' = Deposit(liquid, DepositTo(origin, who),
                                             Unwrap(liquid_to_mint))
                        /\ liquid_issuance' = Unwrap(issuance)
                        /\ PendingAmount' = PendingRemove(PendingAmount,
                                                          batch, who)
                        /\ event' = Event("LiquidCurrencyClaimed", batch,
                                          who, Unwrap(liquid_to_mint), Zero)
                        /\ last' = Call("claim", "Ok")
                        /\ total_claimed' =
                              [total_claimed EXCEPT
                                  ![batch] = Add(@, Unwrap(liquid_to_mint))]
                        /\ UNCHANGED total_requested
                        /\ UNCHANGED <<BatchTotalIssuanceInfo, CurrentBatch,
                                       RelayChainStashAccount, staking>>

\* RelayChainStashAccount::put(new_account_id)
StashPut_if_unset(current, new_account_id) ==
    IF current = NoAccount THEN new_account_id ELSE current

StashPut(current, new_account_id) == new_account_id

\* set_stash_account_id(origin, new_account_id)
set_stash_account_id(origin, new_account_id) ==
    IF ~ensure_root(origin)
    THEN Fail(Call("set_stash_account_id", "BadOrigin"))
    ELSE /\ RelayChainStashAccount' =
               StashPut(RelayChainStashAccount, new_account_id)
         /\ event' = Event("RelayChainStashAccountUpdated", current_batch,
                           new_account_id, Zero, Zero)
         /\ last' = Call("set_stash_account_id", "Ok")
         /\ UNCHANGED <<total_requested, total_claimed>>
         /\ UNCHANGED <<PendingAmount, BatchTotalIssuanceInfo, CurrentBatch,
                        staking, liquid, liquid_issuance>>

Next ==
    \/ \E origin \in Origins, amount \in Amounts :
          request_mint(origin, amount)
    \/ \E origin \in Origins, staking_total \in StakingTotals :
          issue(origin, staking_total) /\ IssueFollowed(MaxBatch)
    \/ \E origin \in Origins, who \in Users, batch \in ClaimBatches :
          claim(origin, who, batch)
    \/ \E origin \in Origins, new_account_id \in StashAccounts :
          set_stash_account_id(origin, new_account_id)

Spec == Init /\ [][Next]_vars

\* the runs in which governance moves the stash between two accounts
InitStash == Genesis_build(GenesisStash)

NextStash ==
    \/ \E origin \in Origins, amount \in Amounts :
          request_mint(origin, amount)
    \/ \E origin \in Origins, staking_total \in StakingTotals :
          issue(origin, staking_total) /\ IssueFollowed(MaxBatch)
    \/ \E origin \in Origins, who \in Users, batch \in ClaimBatches :
          claim(origin, who, batch)
    \/ \E origin \in Origins, new_account_id \in AllStashAccounts :
          set_stash_account_id(origin, new_account_id)

SpecStash == InitStash /\ [][NextStash]_vars

\* the runs that reach the top of the range of a Balance: the genesis holds
\* Staking or Liquid currency there and the amounts and totals passed
\* include Balance::max_value()
InitNarrow == Genesis_build(GenesisNarrow)

NextNarrow ==
    \/ \E origin \in Origins, amount \in AmountsNarrow :
          request_mint(origin, amount)
    \/ \E origin \in Origins, staking_total \in StakingTotalsNarrow :
          issue(origin, staking_total) /\ IssueFollowed(MaxBatch)
    \/ \E origin \in Origins, who \in Users, batch \in ClaimBatches :
          claim(origin, who, batch)
    \/ \E origin \in Origins, new_account_id \in StashAccounts :
          set_stash_account_id(origin, new_account_id)

SpecNarrow == InitNarrow /\ [][NextNarrow]_vars

\* the runs that process several batches, one after the other
InitLong == Genesis_build(GenesisLong)

NextLong ==
    \/ \E origin \in Origins, amount \in AmountsLong :
          request_mint(origin, amount)
    \/ \E origin \in Origins, staking_total \in StakingTotalsLong :
          issue(origin, staking_total) /\ IssueFollowed(MaxBatchLong)
    \/ \E origin \in Origins, who \in Users, batch \in Batches :
          claim(origin, who, batch)
    \/ \E origin \in Origins, new_account_id \in StashAccounts :
          set_stash_account_id(origin, new_account_id)

SpecLong == InitLong /\ [][NextLong]_vars

IsBalance(b) ==
    /\ Len(b) = 5
    /\ \A i \in 1..5 : b[i] \in 0..(Coarse - 1)
    /\ ~Less(U128Max, b)

TypeOK ==
    /\ CurrentBatch \in Batches
    /\ RelayChainStashAccount \in Accounts \cup {NoAccount}
    /\ DOMAIN BatchTotalIssuanceInfo \subseteq Batches
    /\ \A b \in Batches, u \in Users : IsBalance(PendingAmount[b][u])
    /\ \A a \in Accounts : IsBalance(staking[a]) /\ IsBalance(liquid[a])
    /\ IsBalance(liquid_issuance)

(* ------------------------------ claims --------------------------------- *)
Closed == DOMAIN BatchTotalIssuanceInfo
Did(op, result) == last.op = op /\ last.result = result
Emitted(name) == event # NoEvent /\ event[1].name = name
SignedOrigins == {o \in Origins : o.kind = "Signed"}

\* C1: CurrentBatch changes only in a successful issue, which increases it by
\* exactly 1; request_mint, claim, set_stash_account_id and every failed
\* issue leave it unchanged.
C1_CursorStep ==
    [][IF Did("issue", "Ok")'
       THEN NatEq(EraNat(CurrentBatch'),
                  NatAdd(EraNat(CurrentBatch), <<1>>))
       ELSE CurrentBatch' = CurrentBatch]_vars

C1_Witness ==
    /\ Did("issue", "Ok")
    /\ CurrentBatch = EraIndex(1)
    /\ \E u \in Users : PendingAmount[EraIndex(0)][u] # Zero

\* C2: a TotalIssuanceInfo exists for batch b exactly when b < CurrentBatch.
C2_SnapshotsBelowCursor ==
    Closed = {b \in Batches : EraLess(b, CurrentBatch)}

C2_Witness ==
    /\ CurrentBatch = EraIndex(1)
    /\ Closed = {EraIndex(0)}
    /\ Did("claim", "LiquidCurrencyNotIssuedForThisBatch")

\* C3: once the TotalIssuanceInfo of a batch exists, no step removes it or
\* changes its staking_total or liquid_total.
C3_SnapshotImmutable ==
    [][\A b \in Closed :
          /\ b \in Closed'
          /\ BatchTotalIssuanceInfo'[b] = BatchTotalIssuanceInfo[b]]_vars

\* batch 1 was processed after batch 0 had been: Liquid currency was
\* claimed in between, so the second issue recorded other totals under
\* batch 1 while the TotalIssuanceInfo of batch 0 was there
C3_Witness ==
    /\ Did("issue", "Ok")
    /\ Closed = {EraIndex(0), EraIndex(1)}
    /\ Less(BatchTotalIssuanceInfo[EraIndex(0)].liquid_total,
            BatchTotalIssuanceInfo[EraIndex(1)].liquid_total)
    /\ BatchTotalIssuanceInfo[EraIndex(0)].staking_total
          # BatchTotalIssuanceInfo[EraIndex(1)].staking_total
    /\ \E u \in Users : PendingAmount[EraIndex(1)][u] # Zero

\* a successful claim deposits LiquidCurrencyClaimed(batch, who, amount)
\* what the step deposited into who's balance
Minted(who) == Sub(liquid'[who], liquid[who])
\* floor(A * L / S) for the pending amount and the totals of the batch, as
\* a natural number
Floor(batch, who) ==
    NatDivMod(NatMul(ToNat(PendingAmount[batch][who]),
                     ToNat(BatchTotalIssuanceInfo[batch].liquid_total)),
              ToNat(BatchTotalIssuanceInfo[batch].staking_total)).q
\* liquid_total * 10^18
LiquidTimesPow18(batch) ==
    NatMul(ToNat(BatchTotalIssuanceInfo[batch].liquid_total), Pow18)
\* liquid_total * 10^18 is a multiple of staking_total
RatioExact(batch) ==
    NatDivMod(LiquidTimesPow18(batch),
              ToNat(BatchTotalIssuanceInfo[batch].staking_total)).r = <<>>
\* p / c as the Ratio type divides, for natural numbers p and c > 0:
\* truncated toward zero, but rounded to the nearest (the quotient is one
\* more when twice the remainder exceeds c) when p is 2^128 or more and c
\* is 2^32 or more
Quotient(p, c) ==
    \* the quotient and remainder are taken once
    CHOOSE q \in {IF /\ ~NatLess(p, Pow128)
                     /\ ~NatLess(c, Pow32)
                     /\ NatLess(c, NatAdd(d.r, d.r))
                  THEN NatAdd(d.q, <<1>>) ELSE d.q :
                     d \in {NatDivMod(p, c)}} : TRUE
\* the inner value of the Ratio of the batch: liquid_total * 10^18 /
\* staking_total
RatioValue(batch) ==
    Quotient(LiquidTimesPow18(batch),
             ToNat(BatchTotalIssuanceInfo[batch].staking_total))

\* C4 as stated: a successful claim mints exactly floor(A * L / S).
C4_Original ==
    [][Did("claim", "Ok")'
          => NatEq(ToNat(Minted(event'[1].who)),
                   Floor(event'[1].batch, event'[1].who))
      ]_vars

\* C4 amended: a successful claim mints exactly A * R / 10^18 with
\* R = L * 10^18 / S, the ratio as an 18-decimal fixed-point number, each
\* quotient taken as the Ratio type divides. Where L * 10^18 and A * R are
\* below 2^128 both quotients are truncated, so the claim mints
\* floor(A * floor(L * 10^18 / S) / 10^18): that is floor(A * L / S) when
\* L * 10^18 is a multiple of S, and otherwise at most floor(A * L / S) and
\* (for A <= 10^18) at least floor(A * L / S) - 1.
C4_MintTruncatedRatio ==
    [][Did("claim", "Ok")'
          => \E who \in {event'[1].who}, batch \in {event'[1].batch} :
             \E minted \in {Minted(who)}, floor \in {Floor(batch, who)},
                scaled \in {LiquidTimesPow18(batch)},
                ratio \in {RatioValue(batch)},
                total \in {ToNat(BatchTotalIssuanceInfo[batch].staking_total)} :
             \E product \in {NatMul(ratio, ToNat(PendingAmount[batch][who]))} :
                 /\ Emitted("LiquidCurrencyClaimed")'
                 /\ batch \in Closed
                 /\ NatEq(ToNat(minted), Quotient(product, Pow18))
                 /\ (NatLess(scaled, Pow128) /\ NatLess(product, Pow128))
                       => /\ NatLeq(NatMul(ratio, total), scaled)
                          /\ NatLess(scaled,
                                     NatMul(NatAdd(ratio, <<1>>), total))
                          /\ NatLeq(NatMul(ToNat(minted), Pow18), product)
                          /\ NatLess(product,
                                     NatMul(NatAdd(ToNat(minted), <<1>>),
                                            Pow18))
                          /\ NatLeq(ToNat(minted), floor)
                          /\ NatLeq(ToNat(PendingAmount[batch][who]), Pow18)
                                => NatLeq(floor,
                                          NatAdd(ToNat(minted), <<1>>))
                          /\ NatEq(ToNat(minted), floor) \/ ~RatioExact(batch)
                 /\ liquid_issuance' = Add(liquid_issuance, minted)
                 /\ event'[1].a = minted
      ]_vars

\* InitStaking was locked in batch 0, by the one user who held it, and the
\* batch was processed at a ratio that has no exact 18-decimal
\* representation; all of it has been claimed and nothing was minted for the
\* batch, while floor(A * L / S) is 1
C4_Witness ==
    /\ Did("claim", "Ok")
    /\ Emitted("LiquidCurrencyClaimed")
    /\ event[1].batch = EraIndex(0) /\ event[1].a = Zero
    /\ ~RatioExact(EraIndex(0))
    /\ BatchTotalIssuanceInfo[EraIndex(0)].liquid_total = B(InitLiquid)
    /\ BatchTotalIssuanceInfo[EraIndex(0)].staking_total = B(InitStaking)
    /\ total_requested[EraIndex(0)] = B(InitStaking)
    /\ \A u \in Users :
          PendingAmount[EraIndex(0)][u] = Zero /\ staking[u] = Zero
    /\ total_claimed[EraIndex(0)] = Zero
    /\ liquid_issuance = B(InitLiquid)
    /\ \E a \in StashAccounts : staking[a] = B(InitStaking)

\* C5: a signed claim for a batch without TotalIssuanceInfo fails with
\* LiquidCurrencyNotIssuedForThisBatch and changes no storage; no step
\* lowers a pending amount or mints for a batch that is not processed.
C5_NoClaimBeforeIssue ==
    [][/\ last'.op = "claim"
             => \A o \in SignedOrigins, who \in Users,
                   batch \in Batches \ Closed :
                   claim(o, who, batch)
                      => /\ last'.result =
                               "LiquidCurrencyNotIssuedForThisBatch"
                         /\ UNCHANGED storage
       /\ \A batch \in Batches \ Closed, who \in Users :
             ~Less(PendingAmount'[batch][who], PendingAmount[batch][who])
       /\ liquid' # liquid
             => Emitted("LiquidCurrencyClaimed")' /\ event'[1].batch \in Closed
      ]_vars

C5_Witness ==
    /\ Did("claim", "LiquidCurrencyNotIssuedForThisBatch")
    /\ \E u \in Users : PendingAmount[CurrentBatch][u] # Zero
    /\ liquid_issuance # Zero

\* C6: a successful claim of (batch, who) leaves the pending amount zero, a
\* zero pending amount of a processed batch stays zero, and a claim of a
\* zero pending amount mints nothing.
C6_ClaimedOnce ==
    [][/\ Did("claim", "Ok")'
             => LET who == event'[1].who
                    batch == event'[1].batch
                IN  /\ PendingAmount'[batch][who] = Zero
                    /\ PendingAmount[batch][who] = Zero => UNCHANGED storage
       /\ \A batch \in Closed, who \in Users :
             PendingAmount[batch][who] = Zero
                => PendingAmount'[batch][who] = Zero
      ]_vars

\* who was paid for batch 0 before and claims batch 0 again, for nothing
C6_Witness ==
    /\ Did("claim", "Ok")
    /\ Emitted("LiquidCurrencyClaimed")
    /\ event[1].batch = EraIndex(0) /\ event[1].a = Zero
    /\ liquid[event[1].who] # Zero
    /\ CurrentBatch = EraIndex(1)

\* C7: a pending amount increases only in a request_mint and only under the
\* batch that was current when it was called; the pending amounts of a
\* processed batch never increase.
C7_MintIntoCurrentBatch ==
    [][\A batch \in Batches, who \in Users :
          /\ Less(PendingAmount[batch][who], PendingAmount'[batch][who])
                => Did("request_mint", "Ok")' /\ batch = CurrentBatch
          /\ batch \in Closed
                => ~Less(PendingAmount[batch][who],
                         PendingAmount'[batch][who])
      ]_vars

C7_Witness ==
    /\ Did("request_mint", "Ok")
    /\ CurrentBatch = EraIndex(1)
    /\ Emitted("MintRequested")
    /\ event[1].batch = EraIndex(1) /\ event[1].a # Zero
    /\ PendingAmount[EraIndex(0)][event[1].who] # Zero

\* C8: while RelayChainStashAccount is not set every request_mint fails
\* with RelayChainStashAccountNotSet and changes no storage.
C8_MintNeedsStash ==
    [][(RelayChainStashAccount = NoAccount /\ last'.op = "request_mint")
          => /\ last'.result = "RelayChainStashAccountNotSet"
             /\ UNCHANGED storage]_vars

C8_Witness ==
    /\ Did("request_mint", "RelayChainStashAccountNotSet")
    /\ RelayChainStashAccount = NoAccount

\* C9: issue with staking_total = 0 by the issuer fails with
\* InvalidStakedCurrencyTotalIssuance and changes no storage.
C9_ZeroStakingTotalRejected ==
    [][last'.op = "issue"
          => \A o \in Origins :
                issue(o, Zero)
                   => /\ ensure_root(o)
                         => last'.result =
                               "InvalidStakedCurrencyTotalIssuance"
                      /\ last'.result # "Ok"
                      /\ UNCHANGED storage]_vars

C9_Witness ==
    /\ Did("issue", "InvalidStakedCurrencyTotalIssuance")
    /\ EraLess(CurrentBatch, EraIndex(MaxBatch))

\* C10: every TotalIssuanceInfo stored has staking_total > 0.
C10_StakingTotalPositive ==
    \A b \in Closed : Less(Zero, BatchTotalIssuanceInfo[b].staking_total)

C10_Witness ==
    /\ Closed # {}
    /\ \A b \in Closed : BatchTotalIssuanceInfo[b].staking_total = B(1)

\* C11: a successful issue(staking_total) inserts, under the CurrentBatch it
\* read before advancing it, the TotalIssuanceInfo of the staking_total it
\* was passed and of the total issuance of the Liquid currency at the call,
\* and deposits BatchProcessed with the same batch and totals.
C11_IssueRecordsTotals ==
    [][last'.op = "issue"
          => \A staking_total \in StakingTotals \ {Zero} :
                issue(Root, staking_total)
                   => /\ Did("issue", "Ok")'
                      /\ CurrentBatch \in Closed'
                      /\ BatchTotalIssuanceInfo'[CurrentBatch] =
                            [staking_total |-> staking_total,
                             liquid_total |-> liquid_issuance]
                      /\ event' = Event("BatchProcessed", CurrentBatch,
                                        NoAccount, staking_total,
                                        liquid_issuance)
      ]_vars

\* batch 0 was processed with a staking_total that is not the issuance of
\* the Liquid currency, while users had amounts pending in it
C11_Witness ==
    /\ Did("issue", "Ok")
    /\ Emitted("BatchProcessed")
    /\ event[1].batch = EraIndex(0) /\ CurrentBatch = EraIndex(1)
    /\ BatchTotalIssuanceInfo[EraIndex(0)].staking_total = B(MaxStakingTotal)
    /\ BatchTotalIssuanceInfo[EraIndex(0)].liquid_total = B(InitLiquid)
    /\ liquid_issuance = B(InitLiquid)
    /\ \E u \in Users : PendingAmount[EraIndex(0)][u] # Zero

\* C12: a successful request_mint(amount) of who (the call the deposited
\* MintRequested event names) moves exactly amount of the Staking currency
\* from who to the RelayChainStashAccount, adds exactly amount to the
\* pending amount of (CurrentBatch, who), and changes no other pending
\* amount, no balance of another account, not CurrentBatch, no
\* TotalIssuanceInfo, not the RelayChainStashAccount and nothing of the
\* Liquid currency.
C12_MintRequestFrame ==
    [][Did("request_mint", "Ok")'
          => LET who == event'[1].who
                 amount == event'[1].a
             IN  /\ request_mint(Signed(who), amount)
                 /\ RelayChainStashAccount \in AllStashAccounts
                 /\ ~Less(staking[who], amount)
                 /\ staking' = [staking EXCEPT
                                   ![who] = Sub(@, amount),
                                   ![RelayChainStashAccount] =
                                      Add(@, amount)]
                 /\ PendingAmount' = [PendingAmount EXCEPT
                                         ![CurrentBatch][who] =
                                            Add(@, amount)]
                 /\ ~Less(PendingAmount'[CurrentBatch][who], amount)
                 /\ UNCHANGED <<CurrentBatch, BatchTotalIssuanceInfo,
                                RelayChainStashAccount, liquid,
                                liquid_issuance>>
      ]_vars

\* a user locked an amount after governance had moved the stash: both stash
\* accounts hold Staking currency and the other user has an amount pending
C12_Witness ==
    /\ Did("request_mint", "Ok")
    /\ Emitted("MintRequested") /\ event[1].a # Zero
    /\ RelayChainStashAccount = "reserve"
    /\ staking["vault"] # Zero /\ staking["reserve"] # Zero
    /\ \E u \in Users \ {event[1].who} :
          PendingAmount[CurrentBatch][u] # Zero

\* C13: a call of request_mint, issue, claim or set_stash_account_id that
\* returns an error leaves the pending amounts, the TotalIssuanceInfos,
\* CurrentBatch, the RelayChainStashAccount and the balances and issuance of
\* both currencies as they were and deposits no event; so a request_mint
\* whose transfer fails and a claim whose deposit fails keep every pending
\* amount.
C13_ErrorChangesNothing ==
    [][/\ last'.result # "Ok" => UNCHANGED storage /\ event' = NoEvent
       /\ (Did("request_mint", "BalanceTooLow")'
             \/ Did("claim", "TotalIssuanceOverflow")')
             => PendingAmount' = PendingAmount
      ]_vars

\* the deposit of a claim failed on the total issuance of the Liquid
\* currency and the amount of the user is still pending
C13_Witness ==
    /\ Did("claim", "TotalIssuanceOverflow")
    /\ EraIndex(0) \in Closed
    /\ \E u \in Users :
          PendingAmount[EraIndex(0)][u] # Zero /\ liquid[u] = Zero

\* liquid_total / staking_total of the batch fits a Ratio: its inner value
\* is below 2^128 (it is at most 10^18 when liquid_total <= staking_total)
RatioFits(batch) ==
    \/ ~Less(BatchTotalIssuanceInfo[batch].staking_total,
             BatchTotalIssuanceInfo[batch].liquid_total)
    \/ NatLess(RatioValue(batch), Pow128)

\* C14 as stated: a claim of (batch, who), signed by who, for a processed
\* batch in which who has nothing pending returns Ok, mints 0 and changes no
\* storage.
C14_Original ==
    [][\A who \in Users, batch \in Closed :
          (last'.op = "claim"
             /\ PendingAmount[batch][who] = Zero
             /\ claim(Signed(who), who, batch))
             => /\ Did("claim", "Ok")'
                /\ event' = Event("LiquidCurrencyClaimed", batch, who,
                                  Zero, Zero)
                /\ UNCHANGED storage
      ]_vars

\* C14 amended: a claim of (batch, who), signed by who, for a processed
\* batch in which who has nothing pending changes no storage; it returns Ok and
\* deposits LiquidCurrencyClaimed(batch, who, 0) when liquid_total /
\* staking_total of the batch fits a Ratio, and returns Overflow when it
\* does not.
C14_ZeroPendingClaim ==
    [][\A who \in Users, batch \in Closed :
          (last'.op = "claim"
             /\ PendingAmount[batch][who] = Zero
             /\ last'.result \in {"Ok", "Overflow"}
             /\ (Did("claim", "Ok")'
                   => event'[1].who = who /\ event'[1].batch = batch)
             /\ claim(Signed(who), who, batch))
             => /\ UNCHANGED storage
                /\ IF RatioFits(batch)
                   THEN /\ Did("claim", "Ok")'
                        /\ event' = Event("LiquidCurrencyClaimed", batch,
                                          who, Zero, Zero)
                   ELSE /\ Did("claim", "Overflow")'
                        /\ event' = NoEvent
      ]_vars

\* a user who never had Staking currency claimed a processed batch whose
\* ratio is not zero
C14_Witness ==
    /\ Did("claim", "Ok")
    /\ Emitted("LiquidCurrencyClaimed")
    /\ event[1].who = "bob" /\ event[1].batch = EraIndex(0)
    /\ event[1].a = Zero
    /\ liquid["bob"] = Zero /\ staking["bob"] = Zero
    /\ BatchTotalIssuanceInfo[EraIndex(0)].liquid_total # Zero
    /\ RatioFits(EraIndex(0))
    /\ PendingAmount[EraIndex(0)]["alice"] # Zero
    /\ total_requested[EraIndex(0)] = PendingAmount[EraIndex(0)]["alice"]

\* C15: a claim of (batch, who) does not depend on which account signed it:
\* a step that is claim(who, batch) signed by one account is also
\* claim(who, batch) signed by any other, with the same result, the same
\* event and the same storage after it, and the only balance of the Liquid
\* currency it can change is who's.
C15_ClaimCallerIndependent ==
    [][IF Did("claim", "Ok")'
       THEN LET who == event'[1].who
                batch == event'[1].batch
            IN  /\ \A o \in SignedOrigins : claim(o, who, batch)
                /\ \A a \in Accounts \ {who} : liquid'[a] = liquid[a]
                /\ Sub(liquid_issuance', liquid_issuance) = Minted(who)
       ELSE (last'.op = "claim" /\ last'.result # "BadOrigin")
               => \A who \in Users, batch \in Batches :
                     \E signers \in
                           {{o \in SignedOrigins : claim(o, who, batch)}} :
                        signers # {}
                           => signers = SignedOrigins /\ liquid' = liquid
      ]_vars

\* a user was paid for batch 0 while the other user, who can sign the claim
\* as well, holds no Liquid currency and has an amount pending in batch 0
C15_Witness ==
    /\ Did("claim", "Ok")
    /\ Emitted("LiquidCurrencyClaimed")
    /\ event[1].batch = EraIndex(0) /\ event[1].a # Zero
    /\ liquid[event[1].who] = event[1].a
    /\ \E u \in Users \ {event[1].who} :
          liquid[u] = Zero /\ PendingAmount[EraIndex(0)][u] # Zero

\* C16: set_stash_account_id(new_account_id) from the governance origin
\* returns Ok and sets the RelayChainStashAccount to new_account_id, whether
\* it was unset or set to any account before, and changes no pending amount,
\* no TotalIssuanceInfo, not CurrentBatch and no balance; from any other
\* origin it returns BadOrigin and changes no storage.
C16_SetStashFrame ==
    [][\A o \in Origins, new_account_id \in AllStashAccounts :
          (last'.op = "set_stash_account_id"
             /\ set_stash_account_id(o, new_account_id))
             => IF o = Root
                THEN /\ Did("set_stash_account_id", "Ok")'
                     /\ RelayChainStashAccount' = new_account_id
                     /\ event' = Event("RelayChainStashAccountUpdated",
                                       CurrentBatch, new_account_id,
                                       Zero, Zero)
                     /\ UNCHANGED <<PendingAmount, BatchTotalIssuanceInfo,
                                    CurrentBatch, staking, liquid,
                                    liquid_issuance>>
                ELSE /\ Did("set_stash_account_id", "BadOrigin")'
                     /\ event' = NoEvent
                     /\ UNCHANGED storage
      ]_vars

\* governance moved the stash to the second account after Staking currency
\* had been locked in the first, with a batch processed and amounts pending
C16_Witness ==
    /\ Did("set_stash_account_id", "Ok")
    /\ Emitted("RelayChainStashAccountUpdated")
    /\ RelayChainStashAccount = "reserve"
    /\ staking["vault"] # Zero
    /\ CurrentBatch = EraIndex(1)
    /\ \E u \in Users : PendingAmount[EraIndex(1)][u] # Zero

\* R * A for the pending amount A of (batch, who) and the inner value R of
\* the Ratio of the batch, as a natural number
RatioTimesPending(batch, who) ==
    NatMul(RatioValue(batch), ToNat(PendingAmount[batch][who]))

\* 2^128 * 10^18
Pow128Pow18 == <<0, 0, 0, 0>> \o NatMulLimb(Pow128, 100)

\* the pending amount times the ratio fits a Balance
ProductFits(batch, who) ==
    NatLess(Quotient(RatioTimesPending(batch, who), Pow18), Pow128)

\* C17: a claim of (batch, who) for a processed batch, signed by who,
\* returns Overflow exactly when liquid_total / staking_total does not fit
\* a Ratio or the pending amount times the ratio does not fit a Balance
\* (each quotient as the Ratio type divides; in particular whenever
\* L * 10^18 >= 2^128 * S, and whenever R * A >= 2^128 * 10^18); a claim
\* that returns Overflow mints nothing and keeps the pending amount, and a
\* claim that returns Ok deposits R * A / 10^18 itself: who's balance and
\* the total issuance grow by it as numbers, not modulo 2^128.
C17_CheckedArithmetic ==
    [][\A who \in Users, batch \in Closed :
          (/\ last'.op = "claim"
           /\ last'.result \in {"Ok", "Overflow", "TotalIssuanceOverflow"}
           /\ Did("claim", "Ok")'
                 => event'[1].who = who /\ event'[1].batch = batch
           /\ claim(Signed(who), who, batch))
             => \E scaled \in {LiquidTimesPow18(batch)},
                   total \in {ToNat(BatchTotalIssuanceInfo[batch]
                                       .staking_total)} :
                \E ratio \in {Quotient(scaled, total)} :
                /\ Did("claim", "Overflow")'
                      => event' = NoEvent /\ UNCHANGED storage
                /\ (NatLess(total, Pow18)
                      /\ ~NatLess(scaled, NatMul(total, Pow128)))
                      => Did("claim", "Overflow")'
                /\ IF ~NatLess(ratio, Pow128)
                   THEN Did("claim", "Overflow")'
                   ELSE \E product \in
                              {NatMul(ratio,
                                      ToNat(PendingAmount[batch][who]))} :
                        \E minted \in {Quotient(product, Pow18)} :
                           /\ ~NatLess(product, Pow128Pow18)
                                 => Did("claim", "Overflow")'
                           /\ Did("claim", "Overflow")'
                                 <=> ~NatLess(minted, Pow128)
                           /\ Did("claim", "Ok")'
                                 => /\ NatEq(ToNat(event'[1].a), minted)
                                    /\ NatEq(ToNat(liquid'[who]),
                                             NatAdd(ToNat(liquid[who]),
                                                    minted))
                                    /\ NatEq(ToNat(liquid_issuance'),
                                             NatAdd(ToNat(liquid_issuance),
                                                    minted))
      ]_vars

\* a claim returned Overflow for a batch whose ratio fits a Ratio: the
\* amount a user has pending in it times the ratio does not fit a Balance
C17_Witness ==
    /\ Did("claim", "Overflow")
    /\ Closed = {EraIndex(0)}
    /\ RatioFits(EraIndex(0))
    /\ \E u \in Users :
          /\ PendingAmount[EraIndex(0)][u] # Zero
          /\ ~ProductFits(EraIndex(0), u)
          /\ liquid[u] = Zero

\* C18: for every processed batch with totals {S, L}, the Liquid currency
\* claimed for the batch so far is at most floor(T * L / S), T being the
\* Staking currency requested into the batch by all users.
C18_ClaimedAtMostShare ==
    \A b \in Closed :
       NatLeq(ToNat(total_claimed[b]),
              NatDivMod(NatMul(ToNat(total_requested[b]),
                               ToNat(BatchTotalIssuanceInfo[b].liquid_total)),
                        ToNat(BatchTotalIssuanceInfo[b].staking_total)).q)

\* the sum of the balances bal of the accounts in S when each is less
\* than 10^8
RECURSIVE SumSmall(_, _)
SumSmall(bal, S) ==
    IF S = {} THEN 0
    ELSE LET a == CHOOSE x \in S : TRUE
         IN  bal[a][1] + SumSmall(bal, S \ {a})

RECURSIVE SumNat(_, _)
SumNat(bal, S) ==
    IF S = {} THEN <<>>
    ELSE LET a == CHOOSE x \in S : TRUE
         IN  NatAdd(ToNat(bal[a]), SumNat(bal, S \ {a}))

\* the sum of the balances bal of the accounts in S, as a natural number
SumOver(bal, S) ==
    IF \A a \in S : Small(bal[a])
    THEN LET n == SumSmall(bal, S)
         IN  <<n % Base, (n \div Base) % Base, n \div (Base * Base)>>
    ELSE SumNat(bal, S)

\* C19: no call changes the sum of the Staking balances of all accounts;
\* the total issuance of the Liquid currency changes only in a successful
\* claim, by exactly the amount that claim deposits, and stays the sum of
\* the Liquid balances; issue and set_stash_account_id change no balance.
C19_SupplyConserved ==
    [][/\ staking' # staking
             => NatEq(SumOver(staking', Accounts), SumOver(staking, Accounts))
       /\ NatEq(SumOver(liquid', Accounts), ToNat(liquid_issuance'))
       /\ IF Did("claim", "Ok")'
          THEN /\ NatEq(ToNat(liquid_issuance'),
                        NatAdd(ToNat(liquid_issuance), ToNat(event'[1].a)))
               /\ Minted(event'[1].who) = event'[1].a
               /\ staking' = staking
          ELSE liquid_issuance' = liquid_issuance /\ liquid' = liquid
       /\ last'.op \in {"issue", "set_stash_account_id"}
             => staking' = staking /\ liquid' = liquid
      ]_vars

\* Staking currency was locked after Liquid currency had been claimed: the
\* stash holds Staking currency and the issuance has grown since genesis
C19_Witness ==
    /\ Did("request_mint", "Ok")
    /\ Emitted("MintRequested") /\ event[1].a # Zero
    /\ \E a \in StashAccounts : Less(event[1].a, staking[a])
    /\ Less(liquid[Treasury], liquid_issuance)
    /\ liquid[Treasury] # Zero

\* C20: an issue called while the total issuance of the Liquid currency is 0
\* records liquid_total = 0, and every signed claim of (batch, who) for a
\* batch with liquid_total = 0 returns Ok, deposits nothing and leaves the
\* pending amount of (batch, who) zero, whatever it was.
C20_ZeroIssuanceBatch ==
    [][/\ (Did("issue", "Ok")' /\ liquid_issuance = Zero)
             => BatchTotalIssuanceInfo'[CurrentBatch].liquid_total = Zero
       /\ \A o \in SignedOrigins, who \in Users, batch \in Closed :
             (last'.op = "claim"
                /\ BatchTotalIssuanceInfo[batch].liquid_total = Zero
                /\ claim(o, who, batch))
                => /\ Did("claim", "Ok")'
                   /\ event' = Event("LiquidCurrencyClaimed", batch, who,
                                     Zero, Zero)
                   /\ liquid' = liquid /\ liquid_issuance' = liquid_issuance
                   /\ PendingAmount' =
                         [PendingAmount EXCEPT ![batch][who] = Zero]
      ]_vars

\* a user who had locked all their Staking currency in batch 0, processed
\* while no Liquid currency existed, claimed it and was paid nothing
C20_Witness ==
    /\ Did("claim", "Ok")
    /\ Emitted("LiquidCurrencyClaimed")
    /\ event[1].batch = EraIndex(0) /\ event[1].a = Zero
    /\ BatchTotalIssuanceInfo[EraIndex(0)].liquid_total = Zero
    /\ liquid_issuance = Zero
    /\ total_requested[EraIndex(0)] # Zero
    /\ staking[event[1].who] = Zero
    /\ \A b \in Batches : PendingAmount[b][event[1].who] = Zero
    /\ total_requested[EraIndex(1)] = Zero
    /\ \E u \in Users \ {event[1].who} : staking[u] # Zero

====
